---- MODULE Spec2Model ----
(***************************************************************************)
(* Model of main.py of language-salary: the salary predictor, the two      *)
(* source adapters, the two paginated fetchers, the per-language           *)
(* aggregation and the run of main().                                      *)
(*                                                                         *)
(* Numbers.  Python computes the estimates in floating point               *)
(* ((a + b) / 2, a * 1.2, b * 0.8).  The model keeps every estimate as an  *)
(* exact integer number of TENTHS of a currency unit, so the mean of a and *)
(* b is 5 * (a + b), a * 1.2 is 12 * a and b * 0.8 is 8 * b.  Floating     *)
(* point rounding is not modelled.                                         *)
(*                                                                         *)
(* Optional values.  Python's None is the empty sequence <<>> and a        *)
(* present value v is the one-element sequence <<v>>.                      *)
(***************************************************************************)
EXTENDS Integers, Sequences, FiniteSets, TLC

VARIABLES
    pc,                  \* position of the running function
    call,                \* the function applied and its arguments
    result,              \* what the call returned or raised
    platform,            \* "sj" or "hh": the platform being fetched
    language,            \* index of the current language in programming_languages
    page,                \* the loop variable of `for page in count(0)`
    gathered_vacancies,  \* the list a fetch accumulates / the list aggregated
    requests,            \* every HTTP request issued so far, in order
    responses,           \* the responses a single fetch has received, in order
    statistics,          \* the per-language dictionary entry just computed
    salaries_sj,         \* salaries_per_language_in_sj
    salaries_hh,         \* salaries_per_language_in_hh
    printed,             \* what has been printed to standard output
    status_code,         \* the status of the last answer received, 0 before any
    error                \* the exception that ended the run, "" if none

vars == <<pc, call, result, platform, language, page, gathered_vacancies,
          requests, responses, statistics, salaries_sj, salaries_hh,
          printed, status_code, error>>

---------------------------------------------------------------------------
(* Bounds of the model *)

MaxSalary == 2

MaxVacancies == 3

MaxPages == 3

NumLanguages == 2

RunMaxPages == 2

---------------------------------------------------------------------------
(* Values *)

None == <<>>

Some(v) == <<v>>

Option(S) == {None} \cup {Some(v) : v \in S}

Max(a, b) == IF a >= b THEN a ELSE b

\* What a call produces: a returned value, or the exception it raised.
Returned(v) == [raised |-> "", value |-> v]

Raised(e) == [raised |-> e, value |-> None]

\* Python truthiness of an optional number: None and 0 are both falsy.
Truthy(x) == x # None /\ x[1] # 0

\* Salary bounds the platforms may send.
SalaryValues == (0..MaxSalary) \cup {100, 200}

---------------------------------------------------------------------------
(* predict_salary and the two adapters *)

predict_salary_wrong_factor(salary_from, salary_to) ==
    IF Truthy(salary_from) /\ Truthy(salary_to)
    THEN Returned(Some(5 * (salary_to[1] + salary_from[1])))
    ELSE IF ~Truthy(salary_to)
    THEN IF salary_from = None
         THEN Raised("TypeError")
         ELSE Returned(Some(8 * salary_from[1]))
    ELSE IF ~Truthy(salary_from)
    THEN Returned(Some(12 * salary_to[1]))
    ELSE Returned(None)

\* main.py:22-27.  `None * 1.2` raises TypeError; the function falls off its
\* end (returning None) only if no branch is taken, which cannot happen.
predict_salary(salary_from, salary_to) ==
    IF Truthy(salary_from) /\ Truthy(salary_to)
    THEN Returned(Some(5 * (salary_to[1] + salary_from[1])))
    ELSE IF ~Truthy(salary_to)
    THEN IF salary_from = None
         THEN Raised("TypeError")
         ELSE Returned(Some(12 * salary_from[1]))
    ELSE IF ~Truthy(salary_from)
    THEN Returned(Some(8 * salary_to[1]))
    ELSE Returned(None)

\* An HH vacancy: its "salary" is null or {from, to, currency}.
HHCurrencies == {"RUR", "USD", "EUR"}

HHSalaries == [from : Option(SalaryValues), to : Option(SalaryValues),
               currency : HHCurrencies]

HHVacancies == [salary : Option(HHSalaries)]

predict_rub_salary_for_hh_any_currency(vacancy) ==
    IF vacancy.salary # None
    THEN predict_salary(vacancy.salary[1].from, vacancy.salary[1].to)
    ELSE Returned(None)

\* main.py:38-42
predict_rub_salary_for_hh(vacancy) ==
    IF vacancy.salary # None /\ vacancy.salary[1].currency = "RUR"
    THEN predict_salary(vacancy.salary[1].from, vacancy.salary[1].to)
    ELSE Returned(None)

\* An SJ vacancy carries currency, payment_from and payment_to directly.
SJCurrencies == {"rub", "uah"}

SJVacancies == [currency : SJCurrencies, payment_from : Option(SalaryValues),
                payment_to : Option(SalaryValues)]

\* main.py:53-57
predict_rub_salary_for_sj(vacancy) ==
    IF vacancy.currency = "rub"
    THEN predict_salary(vacancy.payment_from, vacancy.payment_to)
    ELSE Returned(None)

---------------------------------------------------------------------------
(* Specification of the pure functions: each action applies one of them to *)
(* arguments drawn from the bounded sets.                                  *)

Idle ==
    /\ call = [fn |-> "", args |-> <<>>]
    /\ result = Returned(None)
    /\ platform = ""
    /\ language = 0
    /\ page = 0
    /\ gathered_vacancies = <<>>
    /\ requests = <<>>
    /\ responses = <<>>
    /\ statistics = Returned(None)
    /\ salaries_sj = <<>>
    /\ salaries_hh = <<>>
    /\ printed = <<>>
    /\ status_code = 0
    /\ error = ""

InitPredict == pc = "predict" /\ Idle

CallPredictSalary ==
    /\ pc = "predict"
    /\ \E salary_from \in Option(SalaryValues), salary_to \in Option(SalaryValues) :
          /\ call' = [fn |-> "predict_salary", args |-> <<salary_from, salary_to>>]
          /\ result' = predict_salary(salary_from, salary_to)
    /\ UNCHANGED <<pc, platform, language, page, gathered_vacancies, requests,
                   responses, statistics, salaries_sj, salaries_hh, printed, status_code, error>>

CallPredictRubSalaryForHH ==
    /\ pc = "predict"
    /\ \E vacancy \in HHVacancies :
          /\ call' = [fn |-> "predict_rub_salary_for_hh", args |-> <<vacancy>>]
          /\ result' = predict_rub_salary_for_hh(vacancy)
    /\ UNCHANGED <<pc, platform, language, page, gathered_vacancies, requests,
                   responses, statistics, salaries_sj, salaries_hh, printed, status_code, error>>

CallPredictRubSalaryForSJ ==
    /\ pc = "predict"
    /\ \E vacancy \in SJVacancies :
          /\ call' = [fn |-> "predict_rub_salary_for_sj", args |-> <<vacancy>>]
          /\ result' = predict_rub_salary_for_sj(vacancy)
    /\ UNCHANGED <<pc, platform, language, page, gathered_vacancies, requests,
                   responses, statistics, salaries_sj, salaries_hh, printed, status_code, error>>

NextPredict ==
    \/ CallPredictSalary
    \/ CallPredictRubSalaryForHH
    \/ CallPredictRubSalaryForSJ

SpecPredict == InitPredict /\ [][NextPredict]_vars

---------------------------------------------------------------------------
(* Claims about predict_salary and the HH adapter (under SpecPredict) *)

IsPredictSalaryCall == call.fn = "predict_salary"

\* A bound is given when it is not None.
IsGiven(x) == x # None

\* A bound counts for the code when it is given and is not zero.
IsGivenNonZero(x) == x # None /\ x[1] # 0

C2_BothAbsentReturnsNone ==
    /\ (IsPredictSalaryCall /\ call.args = <<None, None>>)
          => result = Returned(None)
    /\ (/\ call.fn = "predict_rub_salary_for_hh"
        /\ call.args[1].salary # None
        /\ call.args[1].salary[1].currency = "RUR"
        /\ call.args[1].salary[1].from = None
        /\ call.args[1].salary[1].to = None)
          => result = Returned(None)

\* C7: predict_rub_salary_for_hh returns None for every vacancy whose salary
\* is absent or whose currency is not "RUR", whatever the bounds, and otherwise
\* yields exactly what predict_salary yields for (salary.from, salary.to).
C7_HHAdapter ==
    call.fn = "predict_rub_salary_for_hh" =>
        LET vacancy == call.args[1]
        IN  IF vacancy.salary = None
            THEN result = Returned(None)
            ELSE IF vacancy.salary[1].currency # "RUR"
            THEN result = Returned(None)
            ELSE result = predict_salary(vacancy.salary[1].from, vacancy.salary[1].to)

\* The adapter was applied to a USD vacancy with both bounds given and
\* returned None.
C7_Witness ==
    /\ call.fn = "predict_rub_salary_for_hh"
    /\ call.args[1].salary = Some([from |-> Some(100), to |-> Some(200), currency |-> "USD"])
    /\ result = Returned(None)

\* C8: for non-negative bounds lo <= hi of which at least one is given, the
\* result of predict_salary is a number within [0.8 * lo, 1.2 * hi], the single
\* given bound standing for both lo and hi when the other is absent.
C8_WithinBand ==
    IsPredictSalaryCall =>
        LET lo == call.args[1]
            hi == call.args[2]
            l == IF IsGiven(lo) THEN lo[1] ELSE hi[1]
            h == IF IsGiven(hi) THEN hi[1] ELSE lo[1]
        IN  (IsGiven(lo) \/ IsGiven(hi)) /\ l <= h =>
                /\ result.raised = ""
                /\ result.value # None
                /\ 8 * l <= result.value[1]
                /\ result.value[1] <= 12 * h

---------------------------------------------------------------------------
(* The aggregation of one language's vacancies: the loop body of main() *)

SeqsUpTo(S, n) == UNION {[1..k -> S] : k \in 0..n}

RECURSIVE SumSeq(_)
SumSeq(xs) == IF xs = <<>> THEN 0 ELSE xs[1] + SumSeq(Tail(xs))

Front(xs) == SubSeq(xs, 1, Len(xs) - 1)

\* The adapter main() applies to the vacancies of a platform (main.py:219, 238).
Adapter(plat, vacancy) ==
    IF plat = "hh"
    THEN predict_rub_salary_for_hh(vacancy)
    ELSE predict_rub_salary_for_sj(vacancy)

\* main.py:217-221 and 236-240: gathered_salaries after the loop over the
\* vacancies, in tenths, or the exception the first failing adapter call raised.
\* `append(...) if expected_salary else None` keeps truthy estimates only, so
\* an estimate of 0.0 is dropped like None.
RECURSIVE gather_salaries(_, _)
gather_salaries(plat, vacancies) ==
    IF vacancies = <<>>
    THEN Returned(<<>>)
    ELSE LET earlier == gather_salaries(plat, Front(vacancies))
             expected_salary == Adapter(plat, vacancies[Len(vacancies)])
         IN  IF earlier.raised # ""
             THEN earlier
             ELSE IF expected_salary.raised # ""
             THEN Raised(expected_salary.raised)
             ELSE IF Truthy(expected_salary.value)
             THEN Returned(Append(earlier.value, expected_salary.value[1]))
             ELSE earlier

\* int(sum(gathered_salaries) / len(gathered_salaries)) for non-negative
\* salaries kept in tenths.
average_salary(gathered_salaries) ==
    SumSeq(gathered_salaries) \div (10 * Len(gathered_salaries))

\* main.py:222-228 and 241-247: the dictionary entry of one language.
language_statistics(plat, vacancies) ==
    LET gathered == gather_salaries(plat, vacancies)
    IN  IF gathered.raised # ""
        THEN Raised(gathered.raised)
        ELSE Returned([vacancies_found |-> Len(vacancies),
                       vacancies_processed |-> Len(gathered.value),
                       average_salary |->
                           IF gathered.value # <<>>
                           THEN Some(average_salary(gathered.value))
                           ELSE None])

HHSalary(from, to, currency) ==
    [salary |-> Some([from |-> from, to |-> to, currency |-> currency])]

\* HH vacancies the aggregation is exercised on.
AggHHVacancies ==
    { [salary |-> None],
      HHSalary(Some(50000), Some(70000), "RUR"),
      HHSalary(Some(50000), Some(70000), "USD"),
      HHSalary(Some(100), Some(100), "RUR"),
      HHSalary(Some(101), Some(101), "RUR"),
      HHSalary(Some(100), None, "RUR"),
      HHSalary(Some(0), None, "RUR"),
      HHSalary(None, None, "RUR") }

SJPayment(from, to, currency) ==
    [currency |-> currency, payment_from |-> from, payment_to |-> to]

\* SJ vacancies the aggregation is exercised on (SJ sends 0 for a bound that
\* is not specified).
AggSJVacancies ==
    { SJPayment(Some(1000), Some(2000), "rub"),
      SJPayment(Some(1000), Some(2000), "uah"),
      SJPayment(Some(100), Some(100), "rub"),
      SJPayment(Some(101), Some(101), "rub"),
      SJPayment(Some(0), Some(200), "rub"),
      SJPayment(Some(0), Some(0), "rub"),
      SJPayment(None, None, "rub") }

InitAggregate == pc = "aggregate" /\ Idle

AggregateSJ ==
    /\ pc = "aggregate"
    /\ \E vacancies \in SeqsUpTo(AggSJVacancies, MaxVacancies) :
          /\ platform' = "sj"
          /\ gathered_vacancies' = vacancies
          /\ statistics' = language_statistics("sj", vacancies)
    /\ pc' = "aggregated"
    /\ UNCHANGED <<call, result, language, page, requests, responses,
                   salaries_sj, salaries_hh, printed, status_code, error>>

AggregateHH ==
    /\ pc = "aggregate"
    /\ \E vacancies \in SeqsUpTo(AggHHVacancies, MaxVacancies) :
          /\ platform' = "hh"
          /\ gathered_vacancies' = vacancies
          /\ statistics' = language_statistics("hh", vacancies)
    /\ pc' = "aggregated"
    /\ UNCHANGED <<call, result, language, page, requests, responses,
                   salaries_sj, salaries_hh, printed, status_code, error>>

NextAggregate ==
    \/ AggregateSJ
    \/ AggregateHH

SpecAggregate == InitAggregate /\ [][NextAggregate]_vars

---------------------------------------------------------------------------
(* Claim about the aggregation (under SpecAggregate) *)

\* The estimates the claim counts: every adapter result that is not None,
\* an estimate of zero included.
RECURSIVE NonAbsentEstimates(_, _)
NonAbsentEstimates(plat, vacancies) ==
    IF vacancies = <<>>
    THEN <<>>
    ELSE LET estimate == Adapter(plat, vacancies[1])
             rest == NonAbsentEstimates(plat, Tail(vacancies))
         IN  IF estimate.raised = "" /\ estimate.value # None
             THEN <<estimate.value[1]>> \o rest
             ELSE rest

\* C3: for every list of vacancy records the aggregation produces
\* vacancies_found = the number of records, vacancies_processed = the number of
\* records with a non-absent estimate (zero is not absent), and average_salary
\* = the mean of those estimates truncated to an integer, or None when no
\* estimate was collected; it never fails.
C3_AggregationStatistics ==
    pc = "aggregated" =>
        LET estimates == NonAbsentEstimates(platform, gathered_vacancies)
        IN  /\ statistics.raised = ""
            /\ statistics.value.vacancies_found = Len(gathered_vacancies)
            /\ statistics.value.vacancies_processed = Len(estimates)
            /\ statistics.value.average_salary =
                  IF estimates = <<>>
                  THEN None
                  ELSE Some(SumSeq(estimates) \div (10 * Len(estimates)))

---------------------------------------------------------------------------
(* The two paginated fetchers *)

\* Status codes a platform may answer with.
Statuses == {200, 304, 404, 500}

\* response.raise_for_status() (main.py:85, 114, 150): the requests library
\* raises HTTPError for 400 <= status < 600 and for no other status.
raise_for_status_never(status) == FALSE

raise_for_status(status) == status \in 400..599

max_number_vacancies_per_page == 100

\* Item lists page number p may carry when only the fetch is studied (the
\* fetcher never looks inside an item): no item, or two items of that page.
FetchItemLists(p) == {<<>>, <<2 * p, 2 * p + 1>>}

\* Answers whose body is not the expected JSON.
FailedAnswers ==
    {[status |-> s, json_ok |-> FALSE] : s \in Statuses}

\* Answers to a page request of HH: {"pages": ..., "items": [...]}.
HHResponses(max_pages, item_lists) ==
    {[status |-> a.status, json_ok |-> FALSE, pages |-> 0, items |-> <<>>] :
         a \in FailedAnswers}
    \cup [status : Statuses, json_ok : {TRUE}, pages : 0..max_pages,
          items : item_lists]

\* Totals SJ may declare: 0 and, for every page count up to max_pages, the
\* smallest and the largest total that needs that many pages.
SJTotals(max_pages) ==
    {0} \cup {max_number_vacancies_per_page * (n - 1) + 1 : n \in 1..max_pages}
        \cup {max_number_vacancies_per_page * n : n \in 1..max_pages}

\* Answers to a page request of SJ: {"total": ..., "objects": [...]}.
SJResponses(max_pages, item_lists) ==
    {[status |-> a.status, json_ok |-> FALSE, total |-> 0, objects |-> <<>>] :
         a \in FailedAnswers}
    \cup [status : Statuses, json_ok : {TRUE}, total : SJTotals(max_pages),
          objects : item_lists]

hh_break_strict(current_page, pages) == current_page > pages - 1

\* main.py:88  `if page >= page_data["pages"]-1: break`
hh_break(current_page, pages) == current_page >= pages - 1

sj_last_page_floor(total) == (total \div max_number_vacancies_per_page) - 1

\* main.py:153-155  math.ceil(total / max_number_vacancies_per_page) - 1
sj_last_page(total) ==
    ((total + max_number_vacancies_per_page - 1) \div max_number_vacancies_per_page) - 1

sj_break_strict(current_page, total) == current_page > sj_last_page(total)

\* main.py:156  `if page >= last_page: break`
sj_break(current_page, total) == current_page >= sj_last_page(total)

\* What one iteration of the loop of get_vacancies_from_hh does with the
\* answer (main.py:85-89): raise, stop after this page, or go on.
hh_page_outcome(current_page, response) ==
    IF raise_for_status(response.status) THEN "HTTPError"
    ELSE IF ~response.json_ok THEN "ValueError"
    ELSE IF hh_break(current_page, response.pages) THEN "break"
    ELSE "continue"

\* The same for get_sj_vacancies (main.py:150-157).
sj_page_outcome(current_page, response) ==
    IF raise_for_status(response.status) THEN "HTTPError"
    ELSE IF ~response.json_ok THEN "ValueError"
    ELSE IF sj_break(current_page, response.total) THEN "break"
    ELSE "continue"

\* The request of one loop iteration (main.py:74-84, 134-149).
HHRequest(lang, current_page) ==
    [kind |-> "hh", language |-> lang, page |-> current_page, count |-> None]

SJRequest(lang, current_page) ==
    [kind |-> "sj", language |-> lang, page |-> current_page,
     count |-> Some(max_number_vacancies_per_page)]

InitFetch ==
    /\ pc = "fetching"
    /\ call = [fn |-> "", args |-> <<>>]
    /\ result = Returned(None)
    /\ platform \in {"hh", "sj"}
    /\ language = 1
    /\ page = 0
    /\ gathered_vacancies = <<>>
    /\ requests = <<>>
    /\ responses = <<>>
    /\ statistics = Returned(None)
    /\ salaries_sj = <<>>
    /\ salaries_hh = <<>>
    /\ printed = <<>>
    /\ status_code = 0
    /\ error = ""

\* One iteration of the loop of get_vacancies_from_hh (main.py:73-89).
GetVacanciesFromHHPage ==
    /\ pc = "fetching"
    /\ platform = "hh"
    /\ \E response \in HHResponses(MaxPages, FetchItemLists(page)) :
          LET outcome == hh_page_outcome(page, response)
          IN  /\ requests' = Append(requests, HHRequest(language, page))
              /\ status_code' = response.status
              /\ responses' = Append(responses, response)
              /\ IF outcome \in {"HTTPError", "ValueError"}
                 THEN /\ pc' = "raised"
                      /\ error' = outcome
                      /\ UNCHANGED <<page, gathered_vacancies>>
                 ELSE /\ gathered_vacancies' = gathered_vacancies \o response.items
                      /\ pc' = IF outcome = "break" THEN "returned" ELSE "fetching"
                      /\ page' = IF outcome = "break" THEN page ELSE page + 1
                      /\ UNCHANGED error
    /\ UNCHANGED <<call, result, platform, language, statistics, salaries_sj,
                   salaries_hh, printed>>

\* One iteration of the loop of get_sj_vacancies (main.py:133-157).
GetSJVacanciesPage ==
    /\ pc = "fetching"
    /\ platform = "sj"
    /\ \E response \in SJResponses(MaxPages, FetchItemLists(page)) :
          LET outcome == sj_page_outcome(page, response)
          IN  /\ requests' = Append(requests, SJRequest(language, page))
              /\ status_code' = response.status
              /\ responses' = Append(responses, response)
              /\ IF outcome \in {"HTTPError", "ValueError"}
                 THEN /\ pc' = "raised"
                      /\ error' = outcome
                      /\ UNCHANGED <<page, gathered_vacancies>>
                 ELSE /\ gathered_vacancies' = gathered_vacancies \o response.objects
                      /\ pc' = IF outcome = "break" THEN "returned" ELSE "fetching"
                      /\ page' = IF outcome = "break" THEN page ELSE page + 1
                      /\ UNCHANGED error
    /\ UNCHANGED <<call, result, platform, language, statistics, salaries_sj,
                   salaries_hh, printed>>

NextFetch ==
    \/ GetVacanciesFromHHPage
    \/ GetSJVacanciesPage

SpecFetch == InitFetch /\ [][NextFetch]_vars

\* requests.get blocks until the platform answers; every request is answered.
SpecFetchFair == SpecFetch /\ WF_vars(NextFetch)

---------------------------------------------------------------------------
(* Claims about the fetchers (under SpecFetch and SpecFetchFair) *)

CeilDiv(a, b) == IF a % b = 0 THEN a \div b ELSE (a \div b) + 1

\* A response that was turned into page data: no error status, a JSON body.
Passed(response) == response.status \notin 400..599 /\ response.json_ok

RECURSIVE ItemsOf(_)
ItemsOf(rs) ==
    IF rs = <<>> THEN <<>>
    ELSE (IF rs[1].json_ok THEN rs[1].items ELSE <<>>) \o ItemsOf(Tail(rs))

FetchOver == pc \in {"returned", "raised"}

\* Pages are requested in the order 0, 1, 2, ...
PagesInOrder == \A i \in 1..Len(requests) : requests[i].page = i - 1

\* C4 as written: get_vacancies_from_hh requests pages 0, 1, 2, ... in order,
\* halts exactly when the requested page index equals the declared page count
\* minus 1, never requests a page beyond (declared pages - 1), and returns the
\* concatenation of the items of the pages requested.
C4_Original ==
    platform = "hh" =>
        /\ PagesInOrder
        /\ \A i \in 1..Len(requests) :
              Passed(responses[i]) => requests[i].page <= responses[i].pages - 1
        /\ pc = "returned" =>
              /\ requests[Len(requests)].page = responses[Len(responses)].pages - 1
              /\ gathered_vacancies = ItemsOf(responses)

\* C4 (amended): get_vacancies_from_hh requests pages 0, 1, 2, ... in order
\* and halts at the first requested page whose index is >= (the page count
\* declared by that page's response) - 1; page 0 is always requested, and a
\* later page p is requested only when the response to page p - 1 declared
\* more than p pages; the returned list is the concatenation of the items of
\* exactly the pages requested.
C4_HHPagination ==
    platform = "hh" =>
        /\ PagesInOrder
        /\ Len(responses) = Len(requests)
        /\ \A i \in 1..(Len(requests) - 1) :
              /\ Passed(responses[i])
              /\ requests[i].page < responses[i].pages - 1
              /\ requests[i + 1].page <= responses[i].pages - 1
        /\ pc = "fetching" /\ requests # <<>> =>
              /\ Passed(responses[Len(responses)])
              /\ requests[Len(requests)].page < responses[Len(responses)].pages - 1
        /\ pc = "returned" =>
              /\ requests # <<>>
              /\ Passed(responses[Len(responses)])
              /\ requests[Len(requests)].page >= responses[Len(responses)].pages - 1
              /\ gathered_vacancies = ItemsOf(responses)

\* The HH fetch returned after three pages, the last answer declaring fewer
\* pages than were already requested.
C4_Witness ==
    /\ platform = "hh"
    /\ pc = "returned"
    /\ Len(requests) = 3
    /\ responses[3].pages = 1
    /\ gathered_vacancies = <<0, 1, 2, 3, 4, 5>>

SameTotal(T) == \A i \in 1..Len(responses) : responses[i].total = T

SJStopsAtFirstLastPage ==
    /\ \A i \in 1..Len(requests) :
          requests[i].count = Some(max_number_vacancies_per_page)
    /\ \A i \in 1..(Len(requests) - 1) :
          /\ Passed(responses[i])
          /\ requests[i].page
                < CeilDiv(responses[i].total, max_number_vacancies_per_page) - 1
    /\ pc = "returned" =>
          /\ requests # <<>>
          /\ Passed(responses[Len(responses)])
          /\ requests[Len(requests)].page
                >= CeilDiv(responses[Len(responses)].total,
                           max_number_vacancies_per_page) - 1

\* C5 as written: get_sj_vacancies always asks for 100 records per page and
\* stops after the first page whose index reaches ceil(total / 100) - 1; when
\* every response declares the same total T it requests exactly the pages
\* 0 .. ceil(T / 100) - 1, each once, and none past that index.
C5_Original ==
    platform = "sj" =>
        /\ SJStopsAtFirstLastPage
        /\ PagesInOrder
        /\ \A T \in SJTotals(MaxPages) :
              pc = "returned" /\ SameTotal(T) =>
                  Len(requests) = CeilDiv(T, max_number_vacancies_per_page)

\* C5 (amended): as written, except that with every response declaring the
\* same total T the pages requested are exactly 0 .. max(0, ceil(T / 100) - 1):
\* page 0 is requested even when T = 0.
C5_SJPagination ==
    platform = "sj" =>
        /\ SJStopsAtFirstLastPage
        /\ PagesInOrder
        /\ \A T \in SJTotals(MaxPages) :
              pc = "returned" /\ SameTotal(T) =>
                  Len(requests) =
                      Max(0, CeilDiv(T, max_number_vacancies_per_page) - 1) + 1

\* The SJ fetch returned after every response declared a total of 101: pages
\* 0 and 1 were requested.
C5_Witness ==
    /\ platform = "sj"
    /\ pc = "returned"
    /\ SameTotal(101)
    /\ Len(requests) = 2
    /\ requests[2].page = 1

\* The page count a response declares; an answer without page data declares
\* nothing.
DeclaredPages(response) ==
    IF ~Passed(response) THEN 0
    ELSE IF platform = "hh" THEN response.pages
    ELSE CeilDiv(response.total, max_number_vacancies_per_page)

RECURSIVE MaxDeclaredPages(_)
MaxDeclaredPages(rs) ==
    IF rs = <<>> THEN 0
    ELSE Max(DeclaredPages(rs[1]), MaxDeclaredPages(Tail(rs)))

\* C10: each fetch issues at least one request, even when zero pages or a zero
\* total is declared; with P the largest page count the responses declare it
\* never issues more than max(1, P) requests; and it comes to an end.
C10_FetchTerminates ==
    /\ [](FetchOver => Len(requests) >= 1)
    /\ [](Len(requests) <= Max(1, MaxDeclaredPages(responses)))
    /\ <>FetchOver

\* The HH fetch returned after a single request whose answer declared zero
\* pages.
C10_Witness ==
    /\ platform = "hh"
    /\ pc = "returned"
    /\ Len(requests) = 1
    /\ responses[1].pages = 0

---------------------------------------------------------------------------
(* The run of main() *)

\* Answers to the authorization request: {"access_token": ...} or not.
AuthResponses == [status : Statuses, json_ok : BOOLEAN]

AuthRequest ==
    [kind |-> "auth", language |-> 0, page |-> 0, count |-> None]

\* Item lists a page may carry in a run of main(): one vacancy with a salary
\* in roubles, or one whose two bounds are null.  (Lists of every shape are
\* aggregated under SpecAggregate.)
RunSJItemLists ==
    { <<SJPayment(Some(1000), Some(2000), "rub")>>,
      <<SJPayment(None, None, "rub")>> }

RunHHItemLists ==
    { <<HHSalary(Some(50000), Some(70000), "RUR")>>,
      <<HHSalary(None, None, "RUR")>> }

main_next_interleaved(plat, lang) ==
    IF plat = "sj"
    THEN [pc |-> "hh", language |-> lang]
    ELSE IF lang < NumLanguages
    THEN [pc |-> "sj", language |-> lang + 1]
    ELSE [pc |-> "print_sj", language |-> lang]

\* main.py:211, 229-234, 248-252: where main() goes once the statistics of
\* language number lang of a platform are stored: the next language of the
\* same platform, then all languages of HH after all languages of SJ, then
\* the two prints.
main_next(plat, lang) ==
    IF lang < NumLanguages
    THEN [pc |-> plat, language |-> lang + 1]
    ELSE IF plat = "sj"
    THEN [pc |-> "hh", language |-> 1]
    ELSE [pc |-> "print_sj", language |-> lang]

Init ==
    /\ pc = "auth"
    /\ Idle

\* main.py:188-193 with sj_authorization (main.py:104-115).
SjAuthorization ==
    /\ pc = "auth"
    /\ \E response \in AuthResponses :
          /\ requests' = Append(requests, AuthRequest)
          /\ status_code' = response.status
          /\ IF raise_for_status(response.status)
             THEN pc' = "aborted" /\ error' = "HTTPError" /\ UNCHANGED language
             ELSE IF ~response.json_ok
             THEN pc' = "aborted" /\ error' = "ValueError" /\ UNCHANGED language
             ELSE pc' = "sj" /\ language' = 1 /\ UNCHANGED error
    /\ UNCHANGED <<call, result, platform, page, gathered_vacancies, responses,
                   statistics, salaries_sj, salaries_hh, printed>>

\* One page request of get_sj_vacancies inside main() (main.py:133-157) and,
\* when it was the last page, the statistics of the language (main.py:217-228).
MainSJPage ==
    /\ pc = "sj"
    /\ \E response \in SJResponses(RunMaxPages, RunSJItemLists) :
          LET outcome == sj_page_outcome(page, response)
              gathered == gathered_vacancies \o response.objects
              stats == language_statistics("sj", gathered)
              next == main_next("sj", language)
          IN  /\ requests' = Append(requests, SJRequest(language, page))
              /\ status_code' = response.status
              /\ IF outcome \in {"HTTPError", "ValueError"}
                 THEN /\ pc' = "aborted"
                      /\ error' = outcome
                      /\ UNCHANGED <<language, page, gathered_vacancies, salaries_sj>>
                 ELSE IF outcome = "continue"
                 THEN /\ page' = page + 1
                      /\ gathered_vacancies' = gathered
                      /\ UNCHANGED <<pc, error, language, salaries_sj>>
                 ELSE IF stats.raised # ""
                 THEN /\ pc' = "aborted"
                      /\ error' = stats.raised
                      /\ gathered_vacancies' = gathered
                      /\ UNCHANGED <<language, page, salaries_sj>>
                 ELSE /\ salaries_sj' = Append(salaries_sj, stats.value)
                      /\ pc' = next.pc
                      /\ language' = next.language
                      /\ page' = 0
                      /\ gathered_vacancies' = <<>>
                      /\ UNCHANGED error
    /\ UNCHANGED <<call, result, platform, responses, statistics, salaries_hh,
                   printed>>

\* One page request of get_vacancies_from_hh inside main() (main.py:73-89)
\* and, when it was the last page, the statistics of the language
\* (main.py:236-247).
MainHHPage ==
    /\ pc = "hh"
    /\ \E response \in HHResponses(RunMaxPages, RunHHItemLists) :
          LET outcome == hh_page_outcome(page, response)
              gathered == gathered_vacancies \o response.items
              stats == language_statistics("hh", gathered)
              next == main_next("hh", language)
          IN  /\ requests' = Append(requests, HHRequest(language, page))
              /\ status_code' = response.status
              /\ IF outcome \in {"HTTPError", "ValueError"}
                 THEN /\ pc' = "aborted"
                      /\ error' = outcome
                      /\ UNCHANGED <<language, page, gathered_vacancies, salaries_hh>>
                 ELSE IF outcome = "continue"
                 THEN /\ page' = page + 1
                      /\ gathered_vacancies' = gathered
                      /\ UNCHANGED <<pc, error, language, salaries_hh>>
                 ELSE IF stats.raised # ""
                 THEN /\ pc' = "aborted"
                      /\ error' = stats.raised
                      /\ gathered_vacancies' = gathered
                      /\ UNCHANGED <<language, page, salaries_hh>>
                 ELSE /\ salaries_hh' = Append(salaries_hh, stats.value)
                      /\ pc' = next.pc
                      /\ language' = next.language
                      /\ page' = 0
                      /\ gathered_vacancies' = <<>>
                      /\ UNCHANGED error
    /\ UNCHANGED <<call, result, platform, responses, statistics, salaries_sj,
                   printed>>

\* main.py:252  print(table_for_sj)
PrintSJTable ==
    /\ pc = "print_sj"
    /\ printed' = Append(printed, [title |-> "SuperJob Moscow", rows |-> salaries_sj])
    /\ pc' = "print_hh"
    /\ UNCHANGED <<call, result, platform, language, page, gathered_vacancies,
                   requests, responses, statistics, salaries_sj, salaries_hh,
                   status_code, error>>

\* main.py:253  print(table_for_hh)
PrintHHTable ==
    /\ pc = "print_hh"
    /\ printed' = Append(printed, [title |-> "HeadHunter Moscow", rows |-> salaries_hh])
    /\ pc' = "done"
    /\ UNCHANGED <<call, result, platform, language, page, gathered_vacancies,
                   requests, responses, statistics, salaries_sj, salaries_hh,
                   status_code, error>>

Next ==
    \/ SjAuthorization
    \/ MainSJPage
    \/ MainHHPage
    \/ PrintSJTable
    \/ PrintHHTable

Spec == Init /\ [][Next]_vars

---------------------------------------------------------------------------
(* Claims about the run of main() (under Spec) *)

RunStopped == pc = "aborted" /\ printed = <<>> /\ ~ENABLED Next

\* C6 as written: when any request of the run is answered with a status
\* outside 2xx the run aborts at that point: no later request, no table.
C6_Original ==
    (status_code # 0 /\ status_code \notin 200..299) => RunStopped

\* C6 (amended): when any request of the run (the authorization call or a page
\* request of either platform for any language) is answered with a 4xx or 5xx
\* status, the run aborts at that point with the HTTP error: no later request
\* is issued, the failing language is not skipped and neither table is
\* printed.  (A status outside 2xx that is no error status, such as 304, does
\* not abort the run by itself.)
C6_AbortOnHttpError ==
    status_code \in 400..599 => RunStopped /\ error = "HTTPError"

\* The run was aborted by a 500 on the last language of HH, after every
\* language of SJ and an earlier language of HH had been fetched.
C6_Witness ==
    /\ pc = "aborted"
    /\ status_code = 500
    /\ requests[Len(requests)].kind = "hh"
    /\ Len(salaries_sj) = NumLanguages
    /\ Len(salaries_hh) = NumLanguages - 1
    /\ printed = <<>>

\* The request that may follow request a in a run.
FollowsInOrder(a, b) ==
    \/ a.kind = "auth" /\ b.kind = "sj" /\ b.language = 1 /\ b.page = 0
    \/ a.kind # "auth" /\ b.kind = a.kind /\ b.language = a.language
          /\ b.page = a.page + 1
    \/ a.kind # "auth" /\ b.kind = a.kind /\ b.language = a.language + 1
          /\ b.page = 0
    \/ a.kind = "sj" /\ a.language = NumLanguages
          /\ b.kind = "hh" /\ b.language = 1 /\ b.page = 0

RequestsInOrder ==
    /\ pc # "auth" => requests # <<>>
    /\ requests # <<>> => requests[1].kind = "auth"
    /\ \A i \in 2..Len(requests) :
          /\ requests[i].kind \in {"sj", "hh"}
          /\ requests[i].language \in 1..NumLanguages
          /\ FollowsInOrder(requests[i - 1], requests[i])

TablesAfterLastRequest ==
    /\ Len(printed) <= 2
    /\ Len(printed) >= 1 => printed[1].title = "SuperJob Moscow"
    /\ Len(printed) >= 2 => printed[2].title = "HeadHunter Moscow"
    /\ printed # <<>> =>
          /\ error = ""
          /\ requests[Len(requests)].kind = "hh"
          /\ requests[Len(requests)].language = NumLanguages

\* A step that issues a request issues exactly one, after the previous one was
\* answered without an HTTP error, and before anything is printed.
OneRequestAtATime ==
    requests' # requests =>
        /\ Len(requests') = Len(requests) + 1
        /\ SubSeq(requests', 1, Len(requests)) = requests
        /\ error = ""
        /\ requests # <<>> => status_code \notin 400..599
        /\ printed = <<>>
        /\ printed' = <<>>

\* C9: the requests of a run are issued one at a time in a fixed order: one
\* authorization request first, then for each language in list order the SJ
\* page requests of that language, then for each language in list order its
\* HH page requests; no HH request is issued before the last SJ request has
\* succeeded; the tables are printed only after the last request, the
\* SuperJob table before the HeadHunter table.
C9_RunOrder ==
    /\ [](RequestsInOrder /\ TablesAfterLastRequest)
    /\ [][OneRequestAtATime]_vars

\* A run has printed both tables after at least one fetch of several pages.
C9_Witness ==
    /\ pc = "done"
    /\ Len(printed) = 2
    /\ Len(requests) > 1 + 2 * NumLanguages

====
